---------------------------- MODULE Spec2Model ----------------------------
(***************************************************************************)
(* Model of the carla-data-serde adapter layer (src/serde/*.rs).           *)
(*                                                                         *)
(* The library is a set of pure conversions: construction of a borrowed or *)
(* owned adapter from a sensor event, encoding of an adapter to the serde  *)
(* data model, decoding of the owned adapters from the serde data model,   *)
(* and the Debug rendering (full / preview).  The state machine below is a *)
(* pipeline holding one event, one adapter, one encoded value "in flight"  *)
(* and one rendered text; each action is one of the library's operations.  *)
(*                                                                         *)
(* Encoded values are modelled in the serde data model: a struct is the    *)
(* ordered list of the keys it carries ("keys") plus the value under each  *)
(* key; a sequence is a TLA+ sequence.  The struct name passed to          *)
(* serialize_struct is not part of the encoded value (as in JSON, bincode, *)
(* ...).  Decoding a struct follows the visit_map that                      *)
(* #[derive(Deserialize)] generates.                                       *)
(***************************************************************************)
EXTENDS Integers, Sequences, FiniteSets, TLC

VARIABLES
    ev,     \* the source event the current adapter was constructed from
    ad,     \* the current adapter (borrowed or owned), NoAd after a failed decode
    sent,   \* the adapter whose encoding is in flight, NoAd for a received payload
    wire,   \* the encoded value in flight
    res,    \* the error of the last decode, Ok when it succeeded
    text,   \* the last Debug rendering
    op      \* the last operation

vars == <<ev, ad, sent, wire, res, text, op>>

-----------------------------------------------------------------------------
(* Bounds of the model *)

\* largest image height / width of a source event
MaxH == 10
MaxW == 10
\* largest number of rows / row length of an injected (possibly ragged) payload
MaxInRows == 3
MaxInW == 3
\* largest number of radar detections of a source event
MaxDet == 7
\* largest radar sequence length / len field of an injected payload
MaxInDet == 6
\* largest number of crossed lane markings of a source event
MaxMarks == 2
\* how far beyond the declared tags the injected enum tags go
TagSlack == 2

-----------------------------------------------------------------------------
(* Generic helpers *)

Min(a, b) == IF a < b THEN a ELSE b

Range(s) == {s[i] : i \in DOMAIN s}

NoEv == [t |-> "none"]
NoAd == [t |-> "none"]
NoWire == [t |-> "none"]
NoText == [t |-> "none"]

Ok == ""

\* The visit_map generated by #[derive(Deserialize)] for a struct without
\* deny_unknown_fields: keys are taken in input order; an undeclared key is
\* skipped (__Field::__ignore), a declared key met twice is "duplicate field",
\* a value that fails to decode propagates its error, and a declared key that
\* never came is "missing field".  nested[k] is the decode error of the value
\* under declared key k (Ok when it decodes).
RECURSIVE VisitMapFrom(_, _, _, _, _)
VisitMapFrom(keys, declared, nested, i, seen) ==
    IF i > Len(keys)
    THEN IF \A k \in Range(declared) : k \in seen THEN Ok ELSE "missing field"
    ELSE LET k == keys[i] IN
         IF k \notin Range(declared)
         THEN VisitMapFrom(keys, declared, nested, i + 1, seen)
         ELSE IF k \in seen THEN "duplicate field"
         ELSE IF nested[k] # Ok THEN nested[k]
         ELSE VisitMapFrom(keys, declared, nested, i + 1, seen \cup {k})

VisitMap(keys, declared, nested) == VisitMapFrom(keys, declared, nested, 1, {})

NoNested(declared) == [k \in Range(declared) |-> Ok]

\* error of the first element that fails, Ok when none does
FirstError(errs) ==
    IF \A i \in DOMAIN errs : errs[i] = Ok THEN Ok
    ELSE errs[CHOOSE i \in DOMAIN errs :
                  errs[i] # Ok /\ \A j \in 1..(i - 1) : errs[j] = Ok]

-----------------------------------------------------------------------------
(* image.rs: pixels and 2D arrays *)

PREVIEW_W == 3
PREVIEW_H == 3

\* carla Color, a 4-channel u8 pixel; the event's pixels are a pattern in which
\* the four channels of a pixel differ and neighbouring pixels differ
PixelAt(seed, k) ==
    [b |-> (seed + 4 * k) % 256, g |-> (seed + 4 * k + 1) % 256,
     r |-> (seed + 4 * k + 2) % 256, a |-> (seed + 4 * k + 3) % 256]

\* ndarray Array2 / ArrayView2: dimensions and row-major backing storage
Array2(h, w, data) == [h |-> h, w |-> w, data |-> data]

\* ndarray rows(): one lane of length w for each of the h row indices
Rows(arr) ==
    [i \in 1..arr.h |-> SubSeq(arr.data, (i - 1) * arr.w + 1, i * arr.w)]

\* Vec<Vec<Color>> flattened in row order
RECURSIVE Flatten(_)
Flatten(rows) ==
    IF rows = <<>> THEN <<>> ELSE Head(rows) \o Flatten(Tail(rows))

ColorFields == <<"b", "g", "r", "a">>

\* a mutant in which the renderer's (r, g, b, a) order leaks into the encoding:
\* the first declared field gets the first printed channel
ColorRemote_serialize_render_order(c) ==
    [keys |-> ColorFields, b |-> c.r, g |-> c.g, r |-> c.b, a |-> c.a]

ColorRemote_serialize(c) ==
    [keys |-> ColorFields, b |-> c.b, g |-> c.g, r |-> c.r, a |-> c.a]

ColorRemote_deserialize_err(p) == VisitMap(p.keys, ColorFields, NoNested(ColorFields))

ColorRemote_deserialize_val(p) == [b |-> p.b, g |-> p.g, r |-> p.r, a |-> p.a]

\* arrayview2_color_remote::Row::serialize
ViewRow_serialize(row) == [j \in 1..Len(row) |-> ColorRemote_serialize(row[j])]

\* arrayview2_color_remote::serialize (borrowed)
arrayview2_color_remote_serialize(arr) ==
    [i \in 1..arr.h |-> ViewRow_serialize(Rows(arr)[i])]

\* array2_color_remote::Row::serialize
Row_serialize(row) == [j \in 1..Len(row) |-> ColorRemote_serialize(row[j])]

\* a mutant that emits the grid column by column
array2_color_remote_serialize_transposed(arr) ==
    [j \in 1..arr.w |-> [i \in 1..arr.h |->
        ColorRemote_serialize(arr.data[(i - 1) * arr.w + j])]]

\* array2_color_remote::serialize (owned)
array2_color_remote_serialize(arr) ==
    [i \in 1..arr.h |-> Row_serialize(Rows(arr)[i])]

\* Vec<ColorFromRemote>: the error of one inner sequence
InnerErr(inner) == FirstError([j \in DOMAIN inner |-> ColorRemote_deserialize_err(inner[j])])

\* a mutant that only compares each row with its predecessor's width when the
\* first row is not empty
array2_color_remote_deserialize_lax(outer) ==
    LET elemErr == FirstError([i \in DOMAIN outer |-> InnerErr(outer[i])])
        rows == [i \in DOMAIN outer |->
                    [j \in DOMAIN outer[i] |-> ColorRemote_deserialize_val(outer[i][j])]]
        h == Len(rows)
        w == IF h = 0 THEN 0 ELSE Len(rows[1])
    IN  IF elemErr # Ok THEN [err |-> elemErr, val |-> Array2(0, 0, <<>>)]
        ELSE IF w = 0 THEN [err |-> Ok, val |-> Array2(h, 0, <<>>)]
        ELSE IF \E i \in DOMAIN rows : Len(rows[i]) # w
             THEN [err |-> "ragged 2D array", val |-> Array2(0, 0, <<>>)]
        ELSE [err |-> Ok, val |-> Array2(h, w, Flatten(rows))]

\* a mutant without the empty case: an outer sequence of no rows is refused
array2_color_remote_deserialize_noempty(outer) ==
    LET elemErr == FirstError([i \in DOMAIN outer |-> InnerErr(outer[i])])
        rows == [i \in DOMAIN outer |->
                    [j \in DOMAIN outer[i] |-> ColorRemote_deserialize_val(outer[i][j])]]
        h == Len(rows)
        w == IF h = 0 THEN 0 ELSE Len(rows[1])
    IN  IF elemErr # Ok THEN [err |-> elemErr, val |-> Array2(0, 0, <<>>)]
        ELSE IF h = 0 THEN [err |-> "invalid length 0", val |-> Array2(0, 0, <<>>)]
        ELSE IF \E i \in DOMAIN rows : Len(rows[i]) # w
             THEN [err |-> "ragged 2D array", val |-> Array2(0, 0, <<>>)]
        ELSE [err |-> Ok, val |-> Array2(h, w, Flatten(rows))]

\* array2_color_remote::deserialize, Outer::visit_seq
array2_color_remote_deserialize(outer) ==
    LET elemErr == FirstError([i \in DOMAIN outer |-> InnerErr(outer[i])])
        rows == [i \in DOMAIN outer |->
                    [j \in DOMAIN outer[i] |-> ColorRemote_deserialize_val(outer[i][j])]]
        h == Len(rows)
        w == IF h = 0 THEN 0 ELSE Len(rows[1])
    IN  IF elemErr # Ok THEN [err |-> elemErr, val |-> Array2(0, 0, <<>>)]
        ELSE IF w = 0 /\ h = 0 THEN [err |-> Ok, val |-> Array2(0, 0, <<>>)]
        ELSE IF \E i \in DOMAIN rows : Len(rows[i]) # w
             THEN [err |-> "ragged 2D array", val |-> Array2(0, 0, <<>>)]
        ELSE [err |-> Ok, val |-> Array2(h, w, Flatten(rows))]

-----------------------------------------------------------------------------
(* image.rs: the image event and its two adapters *)

Seeds == {0, 120}

\* carla::sensor::data::Image as seen through its read-only accessors
ImageEvents ==
    {[t |-> "image", height |-> h, width |-> w, seed |-> s, fov_angle |-> 90] :
        h \in 0..MaxH, w \in 0..MaxW, s \in Seeds}

Image_len(e) == e.height * e.width

Image_is_empty(e) == Image_len(e) = 0

Image_as_array(e) ==
    Array2(e.height, e.width, [k \in 1..(e.height * e.width) |-> PixelAt(e.seed, k)])

ImageFields == <<"height", "width", "len", "is_empty", "fov_angle", "array">>

\* From<&ImageEvent> for ImageEventSerBorrowed
ImageEventSerBorrowed_from(e) ==
    [t |-> "ImageEventSerBorrowed",
     height |-> e.height, width |-> e.width, len |-> Image_len(e),
     is_empty |-> Image_is_empty(e), fov_angle |-> e.fov_angle,
     array |-> Image_as_array(e)]

\* a mutant that copies the pixels in the renderer's channel order
ImageEventSerDe_from_swapped(e) ==
    LET view == Image_as_array(e)
    IN  [t |-> "ImageEventSerDe",
         height |-> e.height, width |-> e.width, len |-> Image_len(e),
         is_empty |-> Image_is_empty(e), fov_angle |-> e.fov_angle,
         array |-> Array2(view.h, view.w,
                     [k \in DOMAIN view.data |->
                        [b |-> view.data[k].r, g |-> view.data[k].g,
                         r |-> view.data[k].b, a |-> view.data[k].a]])]

\* From<ImageEvent> for ImageEventSerDe
ImageEventSerDe_from(e) ==
    LET view == Image_as_array(e)
    IN  [t |-> "ImageEventSerDe",
         height |-> e.height, width |-> e.width, len |-> Image_len(e),
         is_empty |-> Image_is_empty(e), fov_angle |-> e.fov_angle,
         array |-> Array2(view.h, view.w,
                     [k \in DOMAIN view.data |->
                        [b |-> view.data[k].b, g |-> view.data[k].g,
                         r |-> view.data[k].r, a |-> view.data[k].a]])]

\* #[derive(Serialize)] of ImageEventSerBorrowed
ImageEventSerBorrowed_serialize(x) ==
    [t |-> "image", keys |-> ImageFields,
     height |-> x.height, width |-> x.width, len |-> x.len,
     is_empty |-> x.is_empty, fov_angle |-> x.fov_angle,
     array |-> arrayview2_color_remote_serialize(x.array)]

\* #[derive(Serialize)] of ImageEventSerDe
ImageEventSerDe_serialize(x) ==
    [t |-> "image", keys |-> ImageFields,
     height |-> x.height, width |-> x.width, len |-> x.len,
     is_empty |-> x.is_empty, fov_angle |-> x.fov_angle,
     array |-> array2_color_remote_serialize(x.array)]

\* #[derive(Deserialize)] of ImageEventSerDe: the error, Ok when it decodes
ImageEventSerDe_deserialize_err(w) ==
    VisitMap(w.keys, ImageFields,
             [k \in Range(ImageFields) |->
                 IF k = "array" THEN array2_color_remote_deserialize(w.array).err
                 ELSE Ok])

\* #[derive(Deserialize)] of ImageEventSerDe: the value, every field taken
\* from the input under its own key
ImageEventSerDe_deserialize_val(w) ==
    [t |-> "ImageEventSerDe",
     height |-> w.height, width |-> w.width, len |-> w.len,
     is_empty |-> w.is_empty, fov_angle |-> w.fov_angle,
     array |-> array2_color_remote_deserialize(w.array).val]

-----------------------------------------------------------------------------
(* image.rs: the renderer.  A rendered payload is the list of its lines: a  *)
(* "row" line carries the pixels printed and whether the in-row marker      *)
(* ", ..." was printed; an "ellipsis" line is the trailing "  ..." line.    *)

\* write_rgba prints (r, g, b, a)
write_rgba(px) == <<px.r, px.g, px.b, px.a>>

RowLine(px, more) == [t |-> "row", px |-> px, more |-> more]

EllipsisLine == [t |-> "ellipsis", px |-> <<>>, more |-> FALSE]

\* a mutant that stops after PREVIEW_H rows
write_full_matrix_capped(rows) ==
    [i \in 1..Min(Len(rows), PREVIEW_H) |->
        RowLine([j \in DOMAIN rows[i] |-> write_rgba(rows[i][j])], FALSE)]

write_full_matrix(rows) ==
    [i \in DOMAIN rows |->
        RowLine([j \in DOMAIN rows[i] |-> write_rgba(rows[i][j])], FALSE)]

\* the row loop of write_preview_matrix: leaves at the first row for which
\* rcount >= max_h; yields the lines written and the final rcount
RECURSIVE PreviewLoop(_, _, _, _, _)
PreviewLoop(rows, idx, rcount, max_h, max_w) ==
    IF idx > Len(rows) \/ rcount >= max_h
    THEN [lines |-> <<>>, rcount |-> rcount]
    ELSE LET row == rows[idx]
             line == RowLine([j \in 1..Min(Len(row), max_w) |-> write_rgba(row[j])],
                             Len(row) > max_w)
             rest == PreviewLoop(rows, idx + 1, rcount + 1, max_h, max_w)
         IN  [lines |-> <<line>> \o rest.lines, rcount |-> rest.rcount]

\* a mutant whose trailing line test is total_rows >= rcount
write_preview_matrix_ge(rows, total_rows, max_h, max_w) ==
    LET l == PreviewLoop(rows, 1, 0, max_h, max_w)
    IN  IF total_rows >= l.rcount THEN l.lines \o <<EllipsisLine>> ELSE l.lines

write_preview_matrix(rows, total_rows, max_h, max_w) ==
    LET l == PreviewLoop(rows, 1, 0, max_h, max_w)
    IN  IF total_rows > l.rcount THEN l.lines \o <<EllipsisLine>> ELSE l.lines

ImageHeader(x) ==
    [height |-> x.height, width |-> x.width, len |-> x.len,
     is_empty |-> x.is_empty, fov_angle |-> x.fov_angle]

\* Debug for ImageEventSerBorrowed
ImageEventSerBorrowed_fmt(x, alternate) ==
    LET h == x.array.h
        w == x.array.w
    IN  IF alternate
        THEN [t |-> "image", name |-> "ImageEventSerBorrowed", header |-> ImageHeader(x),
              label |-> [mode |-> "full", h |-> h, w |-> w],
              body |-> write_full_matrix(Rows(x.array))]
        ELSE [t |-> "image", name |-> "ImageEventSerBorrowed", header |-> ImageHeader(x),
              label |-> [mode |-> "preview", h |-> h, w |-> w,
                         sh |-> Min(PREVIEW_H, h), sw |-> Min(PREVIEW_W, w)],
              body |-> write_preview_matrix(Rows(x.array), h, PREVIEW_H, PREVIEW_W)]

\* a mutant that hands the clamped row cap over as total_rows too
ImageEventSerDe_fmt_clamped_total(x, alternate) ==
    LET h == x.array.h
        w == x.array.w
    IN  IF alternate
        THEN [t |-> "image", name |-> "ImageEventSerDe", header |-> ImageHeader(x),
              label |-> [mode |-> "full", h |-> h, w |-> w],
              body |-> write_full_matrix(Rows(x.array))]
        ELSE [t |-> "image", name |-> "ImageEventSerDe", header |-> ImageHeader(x),
              label |-> [mode |-> "preview", h |-> h, w |-> w,
                         sh |-> Min(PREVIEW_H, h), sw |-> Min(PREVIEW_W, w)],
              body |-> write_preview_matrix(Rows(x.array), Min(PREVIEW_H, h),
                                            Min(PREVIEW_H, h), Min(PREVIEW_W, w))]

\* Debug for ImageEventSerDe
ImageEventSerDe_fmt(x, alternate) ==
    LET h == x.array.h
        w == x.array.w
    IN  IF alternate
        THEN [t |-> "image", name |-> "ImageEventSerDe", header |-> ImageHeader(x),
              label |-> [mode |-> "full", h |-> h, w |-> w],
              body |-> write_full_matrix(Rows(x.array))]
        ELSE [t |-> "image", name |-> "ImageEventSerDe", header |-> ImageHeader(x),
              label |-> [mode |-> "preview", h |-> h, w |-> w,
                         sh |-> Min(PREVIEW_H, h), sw |-> Min(PREVIEW_W, w)],
              body |-> write_preview_matrix(Rows(x.array), h,
                                            Min(PREVIEW_H, h), Min(PREVIEW_W, w))]

-----------------------------------------------------------------------------
(* radar_measurement.rs *)

PREVIEW_DETECTIONS == 5

\* carla RadarDetection; the k-th detection of an event, every field different
DetAt(seed, k) ==
    [velocity |-> seed + 10 * k, azimuth |-> seed + 10 * k + 1,
     altitude |-> seed + 10 * k + 2, depth |-> seed + 10 * k + 3]

\* carla::sensor::data::RadarMeasurement as seen through its accessors
RadarEvents == {[t |-> "radar", n |-> n, seed |-> s] : n \in 0..MaxDet, s \in Seeds}

Radar_as_slice(m) == [k \in 1..m.n |-> DetAt(m.seed, k)]

Radar_len(m) == Len(Radar_as_slice(m))

DetFields == <<"velocity", "azimuth", "altitude", "depth">>

RadarFields == <<"detection_amount", "detections", "len", "is_empty">>

RadarDetectionRemote_serialize(d) ==
    [keys |-> DetFields, velocity |-> d.velocity, azimuth |-> d.azimuth,
     altitude |-> d.altitude, depth |-> d.depth]

RadarDetectionRemote_deserialize_err(p) ==
    VisitMap(p.keys, DetFields, NoNested(DetFields))

RadarDetectionRemote_deserialize_val(p) ==
    [velocity |-> p.velocity, azimuth |-> p.azimuth,
     altitude |-> p.altitude, depth |-> p.depth]

\* slice_radar_detection_remote::serialize (borrowed)
slice_radar_detection_remote_serialize(slice) ==
    [k \in 1..Len(slice) |-> RadarDetectionRemote_serialize(slice[k])]

\* vec_radar_detection_remote::serialize (owned)
vec_radar_detection_remote_serialize(v) ==
    [k \in 1..Len(v) |-> RadarDetectionRemote_serialize(v[k])]

\* vec_radar_detection_remote::deserialize, V::visit_seq
vec_radar_detection_remote_deserialize(seq) ==
    LET e == FirstError([k \in DOMAIN seq |-> RadarDetectionRemote_deserialize_err(seq[k])])
    IN  IF e # Ok THEN [err |-> e, val |-> <<>>]
        ELSE [err |-> Ok,
              val |-> [k \in DOMAIN seq |-> RadarDetectionRemote_deserialize_val(seq[k])]]

\* From<&RadarMeasurementEvent> for RadarMeasurementSerBorrowed
RadarMeasurementSerBorrowed_from(m) ==
    [t |-> "RadarMeasurementSerBorrowed",
     detection_amount |-> m.n, detections |-> Radar_as_slice(m),
     len |-> Radar_len(m), is_empty |-> (Radar_len(m) = 0)]

\* The owned radar adapter has no constructor under src/; as the design
\* describes it (4.4): the same scalar metadata and an element-by-element copy.
RadarMeasurementSerDe_from(m) ==
    [t |-> "RadarMeasurementSerDe",
     detection_amount |-> m.n,
     detections |-> [k \in 1..m.n |->
                        [velocity |-> Radar_as_slice(m)[k].velocity,
                         azimuth |-> Radar_as_slice(m)[k].azimuth,
                         altitude |-> Radar_as_slice(m)[k].altitude,
                         depth |-> Radar_as_slice(m)[k].depth]],
     len |-> Radar_len(m), is_empty |-> (Radar_len(m) = 0)]

\* #[derive(Serialize)] of RadarMeasurementSerBorrowed
RadarMeasurementSerBorrowed_serialize(x) ==
    [t |-> "radar", keys |-> RadarFields,
     detection_amount |-> x.detection_amount,
     detections |-> slice_radar_detection_remote_serialize(x.detections),
     len |-> x.len, is_empty |-> x.is_empty]

\* #[derive(Serialize)] of RadarMeasurementSerDe
RadarMeasurementSerDe_serialize(x) ==
    [t |-> "radar", keys |-> RadarFields,
     detection_amount |-> x.detection_amount,
     detections |-> vec_radar_detection_remote_serialize(x.detections),
     len |-> x.len, is_empty |-> x.is_empty]

\* #[derive(Deserialize)] of RadarMeasurementSerDe
RadarMeasurementSerDe_deserialize_err(w) ==
    VisitMap(w.keys, RadarFields,
             [k \in Range(RadarFields) |->
                 IF k = "detections"
                 THEN vec_radar_detection_remote_deserialize(w.detections).err
                 ELSE Ok])

RadarMeasurementSerDe_deserialize_val(w) ==
    [t |-> "RadarMeasurementSerDe",
     detection_amount |-> w.detection_amount,
     detections |-> vec_radar_detection_remote_deserialize(w.detections).val,
     len |-> w.len, is_empty |-> w.is_empty]

\* write_radar_detection prints velocity, azimuth, altitude, depth
write_radar_detection(d) == <<d.velocity, d.azimuth, d.altitude, d.depth>>

DetLine(d) == [t |-> "det", d |-> write_radar_detection(d), n |-> 0]

\* the line "  ... (n more)"
MoreLine(n) == [t |-> "ellipsis", d |-> <<>>, n |-> n]

write_radar_seq_full(detections) ==
    [k \in 1..Len(detections) |-> DetLine(detections[k])]

\* write_radar_seq_preview: take(max_show.min(total)) of the iterator, then
\* the "more" line when total > shown
write_radar_seq_preview(detections, total, max_show) ==
    LET max_show2 == Min(max_show, total)
        shown == Min(Len(detections), max_show2)
        lines == [k \in 1..shown |-> DetLine(detections[k])]
    IN  IF total > shown THEN lines \o <<MoreLine(total - shown)>> ELSE lines

RadarHeader(x) ==
    [detection_amount |-> x.detection_amount, len |-> x.len, is_empty |-> x.is_empty]

\* Debug for RadarMeasurementSerBorrowed
RadarMeasurementSerBorrowed_fmt(x, alternate) ==
    IF alternate
    THEN [t |-> "radar", name |-> "RadarMeasurementSerBorrowed", header |-> RadarHeader(x),
          label |-> [mode |-> "full", total |-> x.len],
          body |-> write_radar_seq_full(x.detections)]
    ELSE [t |-> "radar", name |-> "RadarMeasurementSerBorrowed", header |-> RadarHeader(x),
          label |-> [mode |-> "preview", showing |-> Min(PREVIEW_DETECTIONS, x.len),
                     of |-> x.len],
          body |-> write_radar_seq_preview(x.detections, x.len, PREVIEW_DETECTIONS)]

\* Debug for RadarMeasurementSerDe
RadarMeasurementSerDe_fmt(x, alternate) ==
    IF alternate
    THEN [t |-> "radar", name |-> "RadarMeasurementSerDe", header |-> RadarHeader(x),
          label |-> [mode |-> "full", total |-> x.len],
          body |-> write_radar_seq_full(x.detections)]
    ELSE [t |-> "radar", name |-> "RadarMeasurementSerDe", header |-> RadarHeader(x),
          label |-> [mode |-> "preview", showing |-> Min(PREVIEW_DETECTIONS, x.len),
                     of |-> x.len],
          body |-> write_radar_seq_preview(x.detections, x.len, PREVIEW_DETECTIONS)]

-----------------------------------------------------------------------------
(* lane_invasion.rs.  A remote enum is its variants in declaration order,   *)
(* each with the discriminant written in the source.  The derived           *)
(* Serialize emits serialize_unit_variant with the variant's index in       *)
(* declaration order; the derived Deserialize maps an index back to the     *)
(* variant at that position.  A foreign enum value is named by its variant. *)

V(name, tag) == [name |-> name, tag |-> tag]

LaneMarkingTypeSerDe ==
    << V("Other", 0), V("Broken", 1), V("Solid", 2), V("SolidSolid", 3),
       V("SolidBroken", 4), V("BrokenSolid", 5), V("BrokenBroken", 6),
       V("BottsDots", 7), V("Grass", 8), V("Curb", 9), V("None", 10) >>

\* a mutant with two variants declared in the other order
LaneMarkingColorSerDe_swapped ==
    << V("Standard", 0), V("Blue", 1), V("Red", 3), V("Green", 2),
       V("Yellow", 4), V("Other", 5) >>

LaneMarkingColorSerDe ==
    << V("Standard", 0), V("Blue", 1), V("Green", 2), V("Red", 3),
       V("Yellow", 4), V("Other", 5) >>

LaneMarkingLaneChangeSerDe ==
    << V("None", 0), V("Right", 1), V("Left", 2), V("Both", 3) >>

\* the discriminant the source declares for a variant
DeclaredTag(enum, name) ==
    enum[CHOOSE i \in DOMAIN enum : enum[i].name = name].tag

\* derived Serialize of a remote unit enum: the variant index
Enum_serialize(enum, name) ==
    (CHOOSE i \in DOMAIN enum : enum[i].name = name) - 1

\* derived Deserialize of a remote unit enum from a variant index; an index
\* that names no variant is refused (serde: "invalid value ..., expected
\* variant index 0 <= i < n", or "unknown variant" when variants go by name)
Enum_deserialize(enum, idx) ==
    IF idx \in 0..(Len(enum) - 1)
    THEN [err |-> Ok, val |-> enum[idx + 1].name]
    ELSE [err |-> "unknown variant", val |-> ""]

MarkingFields == <<"marking_type", "marking_color", "lane_change", "width">>

LaneFields == <<"crossed_lane_markings">>

\* carla::sensor::data::LaneInvasionEvent: the k-th crossed marking of an event
MarkingAt(seed, k) ==
    [marking_type |-> LaneMarkingTypeSerDe[((seed + k) % 11) + 1].name,
     marking_color |-> LaneMarkingColorSerDe[((seed + k) % 6) + 1].name,
     lane_change |-> LaneMarkingLaneChangeSerDe[((seed + k) % 4) + 1].name,
     width |-> k]

LaneSeeds == 0..11

LaneEvents == {[t |-> "lane", n |-> n, seed |-> s] : n \in 0..MaxMarks, s \in LaneSeeds}

\* From<LaneInvasionEvent> for LaneInvasionEventSerDe
LaneInvasionEventSerDe_from(e) ==
    [t |-> "LaneInvasionEventSerDe",
     crossed_lane_markings |->
        [k \in 1..e.n |->
            [marking_type |-> MarkingAt(e.seed, k).marking_type,
             marking_color |-> MarkingAt(e.seed, k).marking_color,
             lane_change |-> MarkingAt(e.seed, k).lane_change,
             width |-> MarkingAt(e.seed, k).width]]]

\* #[derive(Serialize)] of LaneMarkingSerDe
LaneMarkingSerDe_serialize(m) ==
    [keys |-> MarkingFields,
     marking_type |-> Enum_serialize(LaneMarkingTypeSerDe, m.marking_type),
     marking_color |-> Enum_serialize(LaneMarkingColorSerDe, m.marking_color),
     lane_change |-> Enum_serialize(LaneMarkingLaneChangeSerDe, m.lane_change),
     width |-> m.width]

\* #[derive(Deserialize)] of LaneMarkingSerDe
LaneMarkingSerDe_deserialize_err(p) ==
    VisitMap(p.keys, MarkingFields,
             [k \in Range(MarkingFields) |->
                 CASE k = "marking_type" ->
                        Enum_deserialize(LaneMarkingTypeSerDe, p.marking_type).err
                   [] k = "marking_color" ->
                        Enum_deserialize(LaneMarkingColorSerDe, p.marking_color).err
                   [] k = "lane_change" ->
                        Enum_deserialize(LaneMarkingLaneChangeSerDe, p.lane_change).err
                   [] OTHER -> Ok])

LaneMarkingSerDe_deserialize_val(p) ==
    [marking_type |-> Enum_deserialize(LaneMarkingTypeSerDe, p.marking_type).val,
     marking_color |-> Enum_deserialize(LaneMarkingColorSerDe, p.marking_color).val,
     lane_change |-> Enum_deserialize(LaneMarkingLaneChangeSerDe, p.lane_change).val,
     width |-> p.width]

\* #[derive(Serialize)] of LaneInvasionEventSerDe
LaneInvasionEventSerDe_serialize(x) ==
    [t |-> "lane", keys |-> LaneFields,
     crossed_lane_markings |->
        [k \in 1..Len(x.crossed_lane_markings) |->
            LaneMarkingSerDe_serialize(x.crossed_lane_markings[k])]]

\* #[derive(Deserialize)] of LaneInvasionEventSerDe
LaneInvasionEventSerDe_deserialize_err(w) ==
    VisitMap(w.keys, LaneFields,
             [k \in Range(LaneFields) |->
                 FirstError([i \in DOMAIN w.crossed_lane_markings |->
                     LaneMarkingSerDe_deserialize_err(w.crossed_lane_markings[i])])])

LaneInvasionEventSerDe_deserialize_val(w) ==
    [t |-> "LaneInvasionEventSerDe",
     crossed_lane_markings |->
        [i \in DOMAIN w.crossed_lane_markings |->
            LaneMarkingSerDe_deserialize_val(w.crossed_lane_markings[i])]]

\* From<carla enum> for the remote enum: each variant goes to the variant of
\* the same name
Enum_from(enum, name) ==
    enum[CHOOSE i \in DOMAIN enum : enum[i].name = name].name

\* Debug for LaneMarkingSerDe: a debug_struct of the three enums, each
\* converted to its remote enum and printed by its variant name, and width;
\* the alternate flag only asks debug_struct for the multi-line layout
LaneMarkingSerDe_fmt(m, alternate) ==
    [name |-> "LaneMarkingSerDe", fields |-> MarkingFields, pretty |-> alternate,
     marking_type |-> Enum_from(LaneMarkingTypeSerDe, m.marking_type),
     marking_color |-> Enum_from(LaneMarkingColorSerDe, m.marking_color),
     lane_change |-> Enum_from(LaneMarkingLaneChangeSerDe, m.lane_change),
     width |-> m.width]

\* Debug for LaneInvasionEventSerDe: a debug_struct of the one field, the
\* markings printed as a list in their order
LaneInvasionEventSerDe_fmt(x, alternate) ==
    [t |-> "lane", name |-> "LaneInvasionEventSerDe", fields |-> LaneFields,
     pretty |-> alternate,
     crossed_lane_markings |->
        [k \in 1..Len(x.crossed_lane_markings) |->
            LaneMarkingSerDe_fmt(x.crossed_lane_markings[k], alternate)]]

-----------------------------------------------------------------------------
(* imu_measurement.rs *)

\* carla::sensor::data::ImuMeasurement as seen through its accessors
ImuEvents ==
    {[t |-> "imu", accelerometer |-> <<s, s + 1, s + 2>>,
      gyroscope |-> <<s + 3, s + 4, s + 5>>, compass |-> s + 6] : s \in Seeds}

VectorFields == <<"x", "y", "z">>

ImuFields == <<"accelerometer", "gyroscope", "compass">>

\* Vector3DSerDe lives in the crate root, which is not under src/: an
\* {x, y, z} struct with derived Serialize / Deserialize (6, IMU wire format)
Vector3DSerDe_from(v) == [x |-> v[1], y |-> v[2], z |-> v[3]]

Vector3DSerDe_serialize(v) == [keys |-> VectorFields, x |-> v.x, y |-> v.y, z |-> v.z]

Vector3DSerDe_deserialize_err(p) == VisitMap(p.keys, VectorFields, NoNested(VectorFields))

Vector3DSerDe_deserialize_val(p) == [x |-> p.x, y |-> p.y, z |-> p.z]

\* From<ImuMeasurement> for ImuMeasurementSerDe
ImuMeasurementSerDe_from(m) ==
    [t |-> "ImuMeasurementSerDe",
     accelerometer |-> Vector3DSerDe_from(m.accelerometer),
     gyroscope |-> Vector3DSerDe_from(m.gyroscope),
     compass |-> m.compass]

\* #[derive(Serialize)] of ImuMeasurementSerDe
ImuMeasurementSerDe_serialize(x) ==
    [t |-> "imu", keys |-> ImuFields,
     accelerometer |-> Vector3DSerDe_serialize(x.accelerometer),
     gyroscope |-> Vector3DSerDe_serialize(x.gyroscope),
     compass |-> x.compass]

\* the derived Debug of Vector3DSerDe (crate root): the struct's name and its
\* fields in order
Vector3DSerDe_fmt(v, alternate) ==
    [name |-> "Vector3DSerDe", fields |-> VectorFields, pretty |-> alternate,
     x |-> v.x, y |-> v.y, z |-> v.z]

\* #[derive(Debug)] of ImuMeasurementSerDe
ImuMeasurementSerDe_fmt(x, alternate) ==
    [t |-> "imu", name |-> "ImuMeasurementSerDe", fields |-> ImuFields,
     pretty |-> alternate,
     accelerometer |-> Vector3DSerDe_fmt(x.accelerometer, alternate),
     gyroscope |-> Vector3DSerDe_fmt(x.gyroscope, alternate),
     compass |-> x.compass]

\* #[derive(Deserialize)] of ImuMeasurementSerDe
ImuMeasurementSerDe_deserialize_err(w) ==
    VisitMap(w.keys, ImuFields,
             [k \in Range(ImuFields) |->
                 CASE k = "accelerometer" -> Vector3DSerDe_deserialize_err(w.accelerometer)
                   [] k = "gyroscope" -> Vector3DSerDe_deserialize_err(w.gyroscope)
                   [] OTHER -> Ok])

ImuMeasurementSerDe_deserialize_val(w) ==
    [t |-> "ImuMeasurementSerDe",
     accelerometer |-> Vector3DSerDe_deserialize_val(w.accelerometer),
     gyroscope |-> Vector3DSerDe_deserialize_val(w.gyroscope),
     compass |-> w.compass]

-----------------------------------------------------------------------------
(* Payloads received from outside: what a decoder may be handed.  Besides   *)
(* well-formed payloads they carry ragged grids, scalar fields that do not  *)
(* agree with the payload, enum tags beyond the declared ones, and structs  *)
(* whose key list lacks, repeats, reorders or exceeds the declared fields.  *)

Reverse(s) == [i \in 1..Len(s) |-> s[Len(s) + 1 - i]]

KeyVariants(declared) ==
    { declared,
      Reverse(declared),
      declared \o <<"extra">>,
      <<"extra">> \o declared,
      Tail(declared),
      SubSeq(declared, 1, Len(declared) - 1),
      declared \o <<declared[1]>> }

RowLens == UNION {[1..n -> 0..MaxInW] : n \in 0..MaxInRows}

WirePixel(keys, i, j) ==
    [keys |-> keys] @@ PixelAt(0, 16 * i + j)

WireRows(lens, pixkeys) ==
    [i \in DOMAIN lens |-> [j \in 1..lens[i] |->
        WirePixel(IF i = 1 /\ j = 1 THEN pixkeys ELSE ColorFields, i, j)]]

WireImage(keys, lens, pixkeys, height, width) ==
    [t |-> "image", keys |-> keys,
     height |-> height, width |-> width, len |-> height * width,
     is_empty |-> (height * width = 0), fov_angle |-> 90,
     array |-> WireRows(lens, pixkeys)]

FirstLen(lens) == IF lens = <<>> THEN 0 ELSE lens[1]

ImageInputs ==
    {WireImage(ImageFields, lens, ColorFields, Len(lens), FirstLen(lens)) :
        lens \in RowLens}
    \cup {WireImage(ImageFields, lens, ColorFields, MaxInRows + 1, MaxInW + 1) :
        lens \in RowLens}
    \cup {WireImage(k, lens, ColorFields, Len(lens), FirstLen(lens)) :
        k \in KeyVariants(ImageFields), lens \in {<<>>, <<2, 2>>, <<2, 1>>}}
    \cup {WireImage(ImageFields, <<2, 2>>, k, 2, 2) : k \in KeyVariants(ColorFields)}

WireDet(keys, k) == [keys |-> keys] @@ DetAt(0, k)

WireRadar(keys, n, detkeys, len) ==
    [t |-> "radar", keys |-> keys, detection_amount |-> n,
     detections |-> [k \in 1..n |-> WireDet(IF k = 1 THEN detkeys ELSE DetFields, k)],
     len |-> len, is_empty |-> (len = 0)]

RadarInputs ==
    {WireRadar(RadarFields, n, DetFields, len) : n \in 0..MaxInDet, len \in 0..MaxInDet}
    \cup {WireRadar(k, n, DetFields, n) : k \in KeyVariants(RadarFields), n \in {0, 2}}
    \cup {WireRadar(RadarFields, 2, k, 2) : k \in KeyVariants(DetFields)}

WireMarking(keys, ty, co, lc) ==
    [keys |-> keys, marking_type |-> ty, marking_color |-> co, lane_change |-> lc,
     width |-> 1]

WireLane(keys, markings) ==
    [t |-> "lane", keys |-> keys, crossed_lane_markings |-> markings]

LaneInputs ==
    {WireLane(LaneFields, <<WireMarking(MarkingFields, ty, co, lc)>>) :
        ty \in 0..(Len(LaneMarkingTypeSerDe) - 1 + TagSlack),
        co \in 0..(Len(LaneMarkingColorSerDe) - 1 + TagSlack),
        lc \in 0..(Len(LaneMarkingLaneChangeSerDe) - 1 + TagSlack)}
    \cup {WireLane(k, <<WireMarking(MarkingFields, 0, 0, 0)>>) :
        k \in KeyVariants(LaneFields)}
    \cup {WireLane(LaneFields, <<WireMarking(k, 0, 0, 0)>>) :
        k \in KeyVariants(MarkingFields)}

WireVector(keys, s) == [keys |-> keys, x |-> s, y |-> s + 1, z |-> s + 2]

WireImu(keys, veckeys) ==
    [t |-> "imu", keys |-> keys, accelerometer |-> WireVector(veckeys, 1),
     gyroscope |-> WireVector(VectorFields, 4), compass |-> 7]

ImuInputs ==
    {WireImu(k, VectorFields) : k \in KeyVariants(ImuFields)}
    \cup {WireImu(ImuFields, k) : k \in KeyVariants(VectorFields)}

-----------------------------------------------------------------------------
(* The operations *)

Init ==
    /\ ev = NoEv
    /\ ad = NoAd
    /\ sent = NoAd
    /\ wire = NoWire
    /\ res = Ok
    /\ text = NoText
    /\ op = "init"

\* an adapter is constructed from a fresh event; the pipeline handles one
\* event or payload at a time
Constructed(e, x) ==
    /\ op = "init"
    /\ ev' = e
    /\ ad' = x
    /\ sent' = NoAd
    /\ wire' = NoWire
    /\ res' = Ok
    /\ text' = NoText
    /\ op' = "from"

\* the current adapter is encoded
Encoded(w) ==
    /\ wire' = w
    /\ sent' = ad
    /\ res' = Ok
    /\ op' = "serialize"
    /\ UNCHANGED <<ev, ad, text>>

\* the encoded value in flight is decoded
Decoded(err, val) ==
    /\ res' = err
    /\ ad' = IF err = Ok THEN val ELSE NoAd
    /\ op' = "deserialize"
    /\ UNCHANGED <<ev, sent, wire, text>>

\* a payload from outside is decoded
Received(w, err, val) ==
    /\ op = "init"
    /\ wire' = w
    /\ sent' = NoAd
    /\ ev' = NoEv
    /\ res' = err
    /\ ad' = IF err = Ok THEN val ELSE NoAd
    /\ text' = NoText
    /\ op' = "deserialize"

\* the current adapter is rendered
Rendered(tx) ==
    /\ text' = tx
    /\ op' = "fmt"
    /\ UNCHANGED <<ev, ad, sent, wire, res>>

ImageBorrowedFrom ==
    /\ \E e \in ImageEvents : Constructed(e, ImageEventSerBorrowed_from(e))

ImageOwnedFrom ==
    /\ \E e \in ImageEvents : Constructed(e, ImageEventSerDe_from(e))

ImageBorrowedSerialize ==
    /\ ad.t = "ImageEventSerBorrowed"
    /\ Encoded(ImageEventSerBorrowed_serialize(ad))

ImageOwnedSerialize ==
    /\ ad.t = "ImageEventSerDe"
    /\ Encoded(ImageEventSerDe_serialize(ad))

ImageDeserialize ==
    /\ wire.t = "image"
    /\ sent # NoAd
    /\ Decoded(ImageEventSerDe_deserialize_err(wire), ImageEventSerDe_deserialize_val(wire))

ImageReceive ==
    /\ \E w \in ImageInputs :
        Received(w, ImageEventSerDe_deserialize_err(w), ImageEventSerDe_deserialize_val(w))

ImageBorrowedDebug ==
    /\ ad.t = "ImageEventSerBorrowed"
    /\ \E alternate \in BOOLEAN : Rendered(ImageEventSerBorrowed_fmt(ad, alternate))

ImageOwnedDebug ==
    /\ ad.t = "ImageEventSerDe"
    /\ \E alternate \in BOOLEAN : Rendered(ImageEventSerDe_fmt(ad, alternate))

RadarBorrowedFrom ==
    /\ \E m \in RadarEvents : Constructed(m, RadarMeasurementSerBorrowed_from(m))

RadarOwnedFrom ==
    /\ \E m \in RadarEvents : Constructed(m, RadarMeasurementSerDe_from(m))

RadarBorrowedSerialize ==
    /\ ad.t = "RadarMeasurementSerBorrowed"
    /\ Encoded(RadarMeasurementSerBorrowed_serialize(ad))

RadarOwnedSerialize ==
    /\ ad.t = "RadarMeasurementSerDe"
    /\ Encoded(RadarMeasurementSerDe_serialize(ad))

RadarDeserialize ==
    /\ wire.t = "radar"
    /\ sent # NoAd
    /\ Decoded(RadarMeasurementSerDe_deserialize_err(wire),
               RadarMeasurementSerDe_deserialize_val(wire))

RadarReceive ==
    /\ \E w \in RadarInputs :
        Received(w, RadarMeasurementSerDe_deserialize_err(w),
                 RadarMeasurementSerDe_deserialize_val(w))

RadarBorrowedDebug ==
    /\ ad.t = "RadarMeasurementSerBorrowed"
    /\ \E alternate \in BOOLEAN : Rendered(RadarMeasurementSerBorrowed_fmt(ad, alternate))

RadarOwnedDebug ==
    /\ ad.t = "RadarMeasurementSerDe"
    /\ \E alternate \in BOOLEAN : Rendered(RadarMeasurementSerDe_fmt(ad, alternate))

LaneFrom ==
    /\ \E e \in LaneEvents : Constructed(e, LaneInvasionEventSerDe_from(e))

LaneSerialize ==
    /\ ad.t = "LaneInvasionEventSerDe"
    /\ Encoded(LaneInvasionEventSerDe_serialize(ad))

LaneDeserialize ==
    /\ wire.t = "lane"
    /\ sent # NoAd
    /\ Decoded(LaneInvasionEventSerDe_deserialize_err(wire),
               LaneInvasionEventSerDe_deserialize_val(wire))

LaneReceive ==
    /\ \E w \in LaneInputs :
        Received(w, LaneInvasionEventSerDe_deserialize_err(w),
                 LaneInvasionEventSerDe_deserialize_val(w))

LaneDebug ==
    /\ ad.t = "LaneInvasionEventSerDe"
    /\ \E alternate \in BOOLEAN : Rendered(LaneInvasionEventSerDe_fmt(ad, alternate))

ImuFrom ==
    /\ \E m \in ImuEvents : Constructed(m, ImuMeasurementSerDe_from(m))

ImuSerialize ==
    /\ ad.t = "ImuMeasurementSerDe"
    /\ Encoded(ImuMeasurementSerDe_serialize(ad))

ImuDeserialize ==
    /\ wire.t = "imu"
    /\ sent # NoAd
    /\ Decoded(ImuMeasurementSerDe_deserialize_err(wire),
               ImuMeasurementSerDe_deserialize_val(wire))

ImuReceive ==
    /\ \E w \in ImuInputs :
        Received(w, ImuMeasurementSerDe_deserialize_err(w),
                 ImuMeasurementSerDe_deserialize_val(w))

ImuDebug ==
    /\ ad.t = "ImuMeasurementSerDe"
    /\ \E alternate \in BOOLEAN : Rendered(ImuMeasurementSerDe_fmt(ad, alternate))

\* the adapter, the encoded value and the text reach the end of their life:
\* a borrowed adapter cannot outlive its event, an owned one is dropped by
\* its holder
Drop ==
    /\ op # "init"
    /\ ev' = NoEv
    /\ ad' = NoAd
    /\ sent' = NoAd
    /\ wire' = NoWire
    /\ res' = Ok
    /\ text' = NoText
    /\ op' = "init"

Next ==
    \/ ImageBorrowedFrom
    \/ ImageOwnedFrom
    \/ ImageBorrowedSerialize
    \/ ImageOwnedSerialize
    \/ ImageDeserialize
    \/ ImageReceive
    \/ ImageBorrowedDebug
    \/ ImageOwnedDebug
    \/ RadarBorrowedFrom
    \/ RadarOwnedFrom
    \/ RadarBorrowedSerialize
    \/ RadarOwnedSerialize
    \/ RadarDeserialize
    \/ RadarReceive
    \/ RadarBorrowedDebug
    \/ RadarOwnedDebug
    \/ LaneFrom
    \/ LaneSerialize
    \/ LaneDeserialize
    \/ LaneReceive
    \/ LaneDebug
    \/ ImuFrom
    \/ ImuSerialize
    \/ ImuDeserialize
    \/ ImuReceive
    \/ ImuDebug
    \/ Drop

Spec == Init /\ [][Next]_vars

-----------------------------------------------------------------------------
(* Properties *)

ImageKinds == {"ImageEventSerBorrowed", "ImageEventSerDe"}

RadarKinds == {"RadarMeasurementSerBorrowed", "RadarMeasurementSerDe"}

OwnedKinds ==
    {"ImageEventSerDe", "RadarMeasurementSerDe", "LaneInvasionEventSerDe",
     "ImuMeasurementSerDe"}

\* the grid shape invariant of an owned image: a zero-row grid has width 0
ValidOwned(x) == x.t = "ImageEventSerDe" => (x.array.h = 0 => x.array.w = 0)

\* C1 (round trip): whenever the encoding of a valid owned adapter A has been
\* decoded, the decode succeeded and the adapter obtained equals A in every
\* field: scalars, grid dimensions and every element in its position.
C1_RoundTrip ==
    (op = "deserialize" /\ sent.t \in OwnedKinds /\ ValidOwned(sent))
        => (res = Ok /\ ad = sent)

C1_Witness ==
    /\ op = "deserialize"
    /\ sent.t = "ImageEventSerDe"
    /\ sent.array.h = 2 /\ sent.array.w = 3
    /\ ad = sent

\* the empty cases of C1 are reached too
C1_WitnessEmpty ==
    /\ op = "deserialize"
    /\ sent.t = "RadarMeasurementSerDe"
    /\ sent.detections = <<>>
    /\ ad = sent

RowLensOf(w) == [i \in DOMAIN w.array |-> Len(w.array[i])]

\* an image payload whose structs all carry exactly the declared keys
WellKeyedImage(w) ==
    /\ w.keys = ImageFields
    /\ \A i \in DOMAIN w.array : \A j \in DOMAIN w.array[i] :
          w.array[i][j].keys = ColorFields

IsRagged(lens) == \E i \in DOMAIN lens : lens[i] # FirstLen(lens)

\* C2 (ragged rejection): decoding a grid of rows fails with the ragged-grid
\* error exactly when some row's length differs from the first row's; when it
\* does not fail the grid has h = number of rows, w = first row's length and
\* holds every decoded element at its row-major place, neither truncated nor
\* padded.  Row lengths [3,3,2] fail; [0,0,0] give a 3x0 grid.
C2_RaggedRejection ==
    (op = "deserialize" /\ wire.t = "image" /\ WellKeyedImage(wire)) =>
        LET lens == RowLensOf(wire)
            w0 == FirstLen(lens)
        IN  /\ (res = "ragged 2D array") <=> IsRagged(lens)
            /\ ~IsRagged(lens) =>
                  /\ res = Ok
                  /\ ad.array.h = Len(lens)
                  /\ ad.array.w = w0
                  /\ Len(ad.array.data) = Len(lens) * w0
                  /\ \A i \in 1..Len(lens) : \A j \in 1..w0 :
                        ad.array.data[(i - 1) * w0 + j]
                            = [b |-> wire.array[i][j].b, g |-> wire.array[i][j].g,
                               r |-> wire.array[i][j].r, a |-> wire.array[i][j].a]
            /\ lens = <<3, 3, 2>> => res = "ragged 2D array"
            /\ lens = <<0, 0, 0>> =>
                  (res = Ok /\ ad.array = [h |-> 3, w |-> 0, data |-> <<>>])

C2_Witness ==
    /\ op = "deserialize"
    /\ wire.t = "image"
    /\ WellKeyedImage(wire)
    /\ RowLensOf(wire) = <<3, 3, 2>>
    /\ res = "ragged 2D array"

\* C3 (empty grid): the encoding of a 0x0 grid, owned or borrowed, has an
\* outer sequence of zero elements, and decoding an outer sequence of zero
\* elements succeeds with a grid of dimensions (0, 0).
C3_EmptyGrid ==
    /\ (op = "serialize" /\ sent.t \in ImageKinds
            /\ sent.array.h = 0 /\ sent.array.w = 0)
          => wire.array = <<>>
    /\ (op = "deserialize" /\ wire.t = "image" /\ wire.keys = ImageFields
            /\ wire.array = <<>>)
          => (res = Ok /\ ad.array = [h |-> 0, w |-> 0, data |-> <<>>])

C3_Witness ==
    /\ op = "deserialize"
    /\ sent.t \in ImageKinds
    /\ sent.array.h = 0 /\ sent.array.w = 0
    /\ wire.array = <<>>
    /\ res = Ok
    /\ ad.array.h = 0 /\ ad.array.w = 0

RowLines(body) == SelectSeq(body, LAMBDA l : l.t = "row")

EllipsisLines(body) == SelectSeq(body, LAMBDA l : l.t = "ellipsis")

\* C4 (preview bounding): the preview of an h x w image adapter, borrowed or
\* owned, has exactly min(h, 3) row lines, all before any other line, each
\* with the first min(w, 3) pixels of its row; a row line has the in-row
\* marker iff w > 3; there is one trailing elision line, the last line, iff
\* h > 3, and none otherwise.
C4_PreviewBounding ==
    (op = "fmt" /\ text.t = "image" /\ text.label.mode = "preview") =>
        LET h == ad.array.h
            w == ad.array.w
            n == Min(h, PREVIEW_H)
        IN  /\ Len(RowLines(text.body)) = n
            /\ \A i \in 1..n :
                  /\ text.body[i].t = "row"
                  /\ Len(text.body[i].px) = Min(w, PREVIEW_W)
                  /\ \A j \in 1..Min(w, PREVIEW_W) :
                        text.body[i].px[j]
                            = <<ad.array.data[(i - 1) * w + j].r,
                                ad.array.data[(i - 1) * w + j].g,
                                ad.array.data[(i - 1) * w + j].b,
                                ad.array.data[(i - 1) * w + j].a>>
                  /\ text.body[i].more <=> (w > PREVIEW_W)
            /\ Len(EllipsisLines(text.body)) = (IF h > PREVIEW_H THEN 1 ELSE 0)
            /\ Len(text.body) = n + (IF h > PREVIEW_H THEN 1 ELSE 0)

C4_Witness ==
    /\ op = "fmt"
    /\ text.t = "image"
    /\ text.label.mode = "preview"
    /\ ad.array.h = 10 /\ ad.array.w = 10
    /\ Len(text.body) = 4
    /\ \A i \in 1..3 : Len(text.body[i].px) = 3 /\ text.body[i].more
    /\ text.body[4].t = "ellipsis"

\* C5 (full mode): the alternate render of an image adapter has one line per
\* row, in order, each with all w pixels of the row in order and no marker,
\* and no elision line; the alternate render of a radar adapter has one line
\* per detection, in storage order, and no elision line.
C5_FullMode ==
    /\ (op = "fmt" /\ text.t = "image" /\ text.label.mode = "full") =>
          LET h == ad.array.h
              w == ad.array.w
          IN  /\ Len(text.body) = h
              /\ \A i \in 1..h :
                    /\ text.body[i].t = "row"
                    /\ ~text.body[i].more
                    /\ Len(text.body[i].px) = w
                    /\ \A j \in 1..w :
                          text.body[i].px[j]
                              = <<ad.array.data[(i - 1) * w + j].r,
                                  ad.array.data[(i - 1) * w + j].g,
                                  ad.array.data[(i - 1) * w + j].b,
                                  ad.array.data[(i - 1) * w + j].a>>
    /\ (op = "fmt" /\ text.t = "radar" /\ text.label.mode = "full") =>
          /\ Len(text.body) = Len(ad.detections)
          /\ \A k \in 1..Len(ad.detections) :
                /\ text.body[k].t = "det"
                /\ text.body[k].d
                      = <<ad.detections[k].velocity, ad.detections[k].azimuth,
                          ad.detections[k].altitude, ad.detections[k].depth>>

C5_Witness ==
    /\ op = "fmt"
    /\ text.t = "image"
    /\ text.label.mode = "full"
    /\ ad.array.h = 10 /\ ad.array.w = 10
    /\ Len(text.body) = 10
    /\ \A i \in 1..10 : Len(text.body[i].px) = 10

DetLines(body) == SelectSeq(body, LAMBDA l : l.t = "det")

\* C6 (radar preview elision), as claimed: the preview of a radar adapter
\* shows at most PREVIEW_DETECTIONS detections, a prefix of the adapter's
\* sequence; when the sequence holds more elements than were shown, the last
\* line is the one elision line and it carries the number of detections not
\* shown; when it holds no more, there is no elision line.
C6_RadarPreviewElision ==
    (op = "fmt" /\ text.t = "radar" /\ text.label.mode = "preview") =>
        LET n == Len(ad.detections)
            shown == Len(DetLines(text.body))
        IN  /\ shown <= PREVIEW_DETECTIONS
            /\ shown <= n
            /\ \A k \in 1..shown :
                  /\ text.body[k].t = "det"
                  /\ text.body[k].d
                        = <<ad.detections[k].velocity, ad.detections[k].azimuth,
                            ad.detections[k].altitude, ad.detections[k].depth>>
            /\ n > shown =>
                  /\ Len(text.body) = shown + 1
                  /\ text.body[shown + 1] = [t |-> "ellipsis", d |-> <<>>, n |-> n - shown]
            /\ n <= shown => Len(text.body) = shown

\* what does hold of the code: the same statement with the len field in the
\* place of the sequence's length, and with the adapters constructed from an
\* event, whose len is the sequence's length
C6_ByLenField ==
    (op = "fmt" /\ text.t = "radar" /\ text.label.mode = "preview") =>
        LET shown == Len(DetLines(text.body))
        IN  /\ shown = Min(Len(ad.detections), Min(PREVIEW_DETECTIONS, ad.len))
            /\ ad.len > shown =>
                  text.body[Len(text.body)]
                      = [t |-> "ellipsis", d |-> <<>>, n |-> ad.len - shown]
            /\ ad.len <= shown => Len(text.body) = shown

\* every struct of a payload, with the fields its type declares
StructsOf(w) ==
    CASE w.t = "image" ->
            {<<w.keys, ImageFields>>}
            \cup UNION {{<<w.array[i][j].keys, ColorFields>> : j \in DOMAIN w.array[i]} :
                          i \in DOMAIN w.array}
      [] w.t = "radar" ->
            {<<w.keys, RadarFields>>}
            \cup {<<w.detections[k].keys, DetFields>> : k \in DOMAIN w.detections}
      [] w.t = "lane" ->
            {<<w.keys, LaneFields>>}
            \cup {<<w.crossed_lane_markings[k].keys, MarkingFields>> :
                    k \in DOMAIN w.crossed_lane_markings}
      [] w.t = "imu" ->
            {<<w.keys, ImuFields>>, <<w.accelerometer.keys, VectorFields>>,
             <<w.gyroscope.keys, VectorFields>>}

\* the struct lacks a declared field
Lacks(st) == \E f \in Range(st[2]) : f \notin Range(st[1])

\* the struct carries a field that is not declared
Exceeds(st) == \E f \in Range(st[1]) : f \notin Range(st[2])

\* the struct carries every declared field exactly once, in any order, and
\* possibly undeclared fields besides
CarriesDeclaredOnce(st) ==
    \A f \in Range(st[2]) : Cardinality({i \in DOMAIN st[1] : st[1][i] = f}) = 1

SchemaErrors == {"missing field", "unknown field", "duplicate field"}

\* the payload is sound but for its keys: no ragged grid, no undeclared tag
SoundValues(w) ==
    /\ w.t = "image" => ~IsRagged(RowLensOf(w))
    /\ w.t = "lane" =>
          \A k \in DOMAIN w.crossed_lane_markings :
              /\ w.crossed_lane_markings[k].marking_type < Len(LaneMarkingTypeSerDe)
              /\ w.crossed_lane_markings[k].marking_color < Len(LaneMarkingColorSerDe)
              /\ w.crossed_lane_markings[k].lane_change < Len(LaneMarkingLaneChangeSerDe)

\* C7 (struct decode strictness), as claimed: a decode whose input has a struct
\* with a field set other than the declared one, a declared field missing or an
\* undeclared field present, fails with a schema-mismatch error.  (Stated for
\* payloads whose values are sound, so that no other error can come first.)
C7_StructStrictness ==
    (op = "deserialize" /\ SoundValues(wire)
        /\ \E st \in StructsOf(wire) : Lacks(st) \/ Exceeds(st))
        => res \in SchemaErrors

\* what does hold of the code: among the payloads whose values are sound, one
\* with a struct lacking a declared field is refused with a schema-mismatch
\* error, while undeclared fields are skipped: an input whose structs each
\* carry every declared field once decodes, whatever undeclared fields it
\* carries besides, to the adapter holding the values under the declared keys.
C7_MissingRefusedExtraSkipped ==
    op = "deserialize" =>
        /\ (SoundValues(wire) /\ \E st \in StructsOf(wire) : Lacks(st))
              => res \in SchemaErrors
        /\ ((\A st \in StructsOf(wire) : CarriesDeclaredOnce(st)) /\ SoundValues(wire))
              => /\ res = Ok
                 /\ wire.t = "radar" =>
                       /\ ad.len = wire.len
                       /\ ad.detection_amount = wire.detection_amount
                       /\ Len(ad.detections) = Len(wire.detections)
                 /\ wire.t = "image" =>
                       /\ ad.height = wire.height
                       /\ ad.width = wire.width
                       /\ ad.array.h = Len(wire.array)

\* an image with an undeclared field has been decoded without an error
C7_Witness ==
    /\ op = "deserialize"
    /\ wire.t = "image"
    /\ wire.keys = ImageFields \o <<"extra">>
    /\ wire.array # <<>>
    /\ res = Ok
    /\ ad.t = "ImageEventSerDe"

\* a missing field is reached too
C7_WitnessMissing ==
    /\ op = "deserialize"
    /\ wire.t = "radar"
    /\ wire.keys = Tail(RadarFields)
    /\ res = "missing field"

\* C8 (image wire-format shape), as claimed: in every image adapter, from an
\* event or from a decode, the number of rows of the array is the height
\* field and the length of every row is the width field.
C8_ImageShape ==
    ad.t \in ImageKinds =>
        /\ ad.array.h = ad.height
        /\ \A i \in 1..ad.array.h : Len(Rows(ad.array)[i]) = ad.width

\* what does hold of the code: the adapters constructed from an event
C8_FromEvent ==
    (op = "from" /\ ad.t \in ImageKinds) =>
        /\ ad.array.h = ad.height
        /\ \A i \in 1..ad.array.h : Len(Rows(ad.array)[i]) = ad.width

Marks(x) == x.crossed_lane_markings

DeclaredTags(enum) == {enum[i].tag : i \in DOMAIN enum}

\* the variant the source declares with a tag
DeclaredVariant(enum, tag) ==
    enum[CHOOSE i \in DOMAIN enum : enum[i].tag = tag].name

WellKeyedLane(w) ==
    /\ w.keys = LaneFields
    /\ \A k \in DOMAIN Marks(w) : Marks(w)[k].keys = MarkingFields

\* C9 (enum tag stability): the declared tags are 0..10, 0..5 and 0..3; a
\* variant is encoded as the tag it is declared with; a declared tag decodes
\* to the variant declared with it; a decode of an encoded variant returns
\* that variant; a tag outside the declared ones fails the decode with the
\* unknown-variant error.
C9_EnumTagStability ==
    /\ DeclaredTags(LaneMarkingTypeSerDe) = 0..10
    /\ DeclaredTags(LaneMarkingColorSerDe) = 0..5
    /\ DeclaredTags(LaneMarkingLaneChangeSerDe) = 0..3
    /\ (op = "serialize" /\ wire.t = "lane") =>
          \A k \in DOMAIN Marks(sent) :
              /\ Marks(wire)[k].marking_type
                    = DeclaredTag(LaneMarkingTypeSerDe, Marks(sent)[k].marking_type)
              /\ Marks(wire)[k].marking_color
                    = DeclaredTag(LaneMarkingColorSerDe, Marks(sent)[k].marking_color)
              /\ Marks(wire)[k].lane_change
                    = DeclaredTag(LaneMarkingLaneChangeSerDe, Marks(sent)[k].lane_change)
    /\ (op = "deserialize" /\ wire.t = "lane" /\ WellKeyedLane(wire)) =>
          LET declared ==
                \A k \in DOMAIN Marks(wire) :
                    /\ Marks(wire)[k].marking_type \in 0..10
                    /\ Marks(wire)[k].marking_color \in 0..5
                    /\ Marks(wire)[k].lane_change \in 0..3
          IN  /\ ~declared => res = "unknown variant"
              /\ declared =>
                    /\ res = Ok
                    /\ \A k \in DOMAIN Marks(wire) :
                          /\ Marks(ad)[k].marking_type
                                = DeclaredVariant(LaneMarkingTypeSerDe,
                                                  Marks(wire)[k].marking_type)
                          /\ Marks(ad)[k].marking_color
                                = DeclaredVariant(LaneMarkingColorSerDe,
                                                  Marks(wire)[k].marking_color)
                          /\ Marks(ad)[k].lane_change
                                = DeclaredVariant(LaneMarkingLaneChangeSerDe,
                                                  Marks(wire)[k].lane_change)
    /\ (op = "deserialize" /\ sent.t = "LaneInvasionEventSerDe") =>
          /\ res = Ok
          /\ \A k \in DOMAIN Marks(sent) :
                /\ Marks(ad)[k].marking_type = Marks(sent)[k].marking_type
                /\ Marks(ad)[k].marking_color = Marks(sent)[k].marking_color
                /\ Marks(ad)[k].lane_change = Marks(sent)[k].lane_change

C9_Witness ==
    /\ op = "deserialize"
    /\ wire.t = "lane"
    /\ sent = NoAd
    /\ Len(Marks(wire)) = 1
    /\ Marks(wire)[1].marking_type = 10
    /\ Marks(wire)[1].marking_color = 3
    /\ Marks(wire)[1].lane_change = 2
    /\ res = Ok
    /\ Marks(ad)[1].marking_type = "None"
    /\ Marks(ad)[1].marking_color = "Red"
    /\ Marks(ad)[1].lane_change = "Left"

\* a tag beyond the declared ones is reached too
C9_WitnessUnknown ==
    /\ op = "deserialize"
    /\ wire.t = "lane"
    /\ WellKeyedLane(wire)
    /\ Len(Marks(wire)) = 1
    /\ Marks(wire)[1].marking_type = 11
    /\ res = "unknown variant"

\* C10 (borrowed vs. owned equivalence): the encoding of the borrowed adapter
\* of an event is the encoding of the owned adapter of the same event, and the
\* other way round: the same keys in the same order, the same scalars, the
\* same payload sequence.
C10_BorrowedOwnedEquivalence ==
    /\ (op = "serialize" /\ sent.t = "ImageEventSerBorrowed") =>
          wire = ImageEventSerDe_serialize(ImageEventSerDe_from(ev))
    /\ (op = "serialize" /\ sent.t = "ImageEventSerDe" /\ ev.t = "image"
            /\ sent = ImageEventSerDe_from(ev)) =>
          wire = ImageEventSerBorrowed_serialize(ImageEventSerBorrowed_from(ev))
    /\ (op = "serialize" /\ sent.t = "RadarMeasurementSerBorrowed") =>
          wire = RadarMeasurementSerDe_serialize(RadarMeasurementSerDe_from(ev))
    /\ (op = "serialize" /\ sent.t = "RadarMeasurementSerDe" /\ ev.t = "radar"
            /\ sent = RadarMeasurementSerDe_from(ev)) =>
          wire = RadarMeasurementSerBorrowed_serialize(RadarMeasurementSerBorrowed_from(ev))

C10_Witness ==
    /\ op = "serialize"
    /\ sent.t = "ImageEventSerBorrowed"
    /\ sent.array.h = 2 /\ sent.array.w = 3
    /\ wire.keys = ImageFields
    /\ Len(wire.array) = 2
    /\ wire.array[2][3].keys = ColorFields

\* C11 (element field order): every encoded pixel carries its fields in the
\* declared order (b, g, r, a), each with the pixel's own value; the renderer
\* prints each pixel as (r, g, b, a); and after encode and decode every pixel
\* has each channel's value under the same field name as before.
C11_FieldOrder ==
    /\ (op = "serialize" /\ sent.t \in ImageKinds) =>
          \A i \in 1..sent.array.h : \A j \in 1..sent.array.w :
              LET c == sent.array.data[(i - 1) * sent.array.w + j]
              IN  /\ wire.array[i][j].keys = <<"b", "g", "r", "a">>
                  /\ wire.array[i][j].b = c.b
                  /\ wire.array[i][j].g = c.g
                  /\ wire.array[i][j].r = c.r
                  /\ wire.array[i][j].a = c.a
    /\ (op = "fmt" /\ text.t = "image") =>
          \A i \in DOMAIN text.body : \A j \in DOMAIN text.body[i].px :
              LET c == ad.array.data[(i - 1) * ad.array.w + j]
              IN  text.body[i].px[j] = <<c.r, c.g, c.b, c.a>>
    /\ (op = "deserialize" /\ sent.t \in ImageKinds /\ res = Ok) =>
          \A k \in DOMAIN ad.array.data :
              /\ ad.array.data[k].b = sent.array.data[k].b
              /\ ad.array.data[k].g = sent.array.data[k].g
              /\ ad.array.data[k].r = sent.array.data[k].r
              /\ ad.array.data[k].a = sent.array.data[k].a

\* a pixel with four different channels has been encoded and decoded
C11_Witness ==
    /\ op = "deserialize"
    /\ sent.t = "ImageEventSerDe"
    /\ res = Ok
    /\ sent.array.h = 2 /\ sent.array.w = 3
    /\ Cardinality({sent.array.data[6].b, sent.array.data[6].g,
                    sent.array.data[6].r, sent.array.data[6].a}) = 4
    /\ wire.array[2][3].keys = <<"b", "g", "r", "a">>
    /\ ad.array.data[6] = sent.array.data[6]

\* C12 (radar preview header), as claimed: in the preview of a radar adapter,
\* decoded ones included, the N of "preview showing N of M" is the number of
\* detection lines emitted and M is the number of detections the adapter holds.
C12_RadarHeaderConsistency ==
    (op = "fmt" /\ text.t = "radar" /\ text.label.mode = "preview") =>
        /\ text.label.showing = Len(DetLines(text.body))
        /\ text.label.of = Len(ad.detections)

\* what does hold of the code: the header and the lines agree for the adapters
\* whose len field is the length of their sequence, those constructed from an
\* event among them
C12_WhenLenAgrees ==
    (op = "fmt" /\ text.t = "radar" /\ text.label.mode = "preview"
        /\ ad.len = Len(ad.detections)) =>
        /\ text.label.showing = Len(DetLines(text.body))
        /\ text.label.of = Len(ad.detections)

\* C13 (borrowed/owned preview equivalence): the preview payload and caption of
\* the owned adapter of an event are those of the borrowed adapter of the same
\* event, and for every owned adapter, decoded ones included, the payload is
\* the one the preview writer gives for the same grid with the unclamped caps
\* PREVIEW_H, PREVIEW_W the borrowed adapter passes.
C13_PreviewEquivalence ==
    /\ (op = "fmt" /\ text.t = "image" /\ text.label.mode = "preview"
            /\ ad.t = "ImageEventSerDe") =>
          /\ text.body
                = write_preview_matrix(Rows(ad.array), ad.array.h, PREVIEW_H, PREVIEW_W)
          /\ (ev.t = "image" /\ ad = ImageEventSerDe_from(ev)) =>
                /\ text.body
                      = ImageEventSerBorrowed_fmt(ImageEventSerBorrowed_from(ev), FALSE).body
                /\ text.label
                      = ImageEventSerBorrowed_fmt(ImageEventSerBorrowed_from(ev), FALSE).label
    /\ (op = "fmt" /\ text.t = "image" /\ text.label.mode = "preview"
            /\ ad.t = "ImageEventSerBorrowed") =>
          /\ text.body = ImageEventSerDe_fmt(ImageEventSerDe_from(ev), FALSE).body
          /\ text.label = ImageEventSerDe_fmt(ImageEventSerDe_from(ev), FALSE).label

\* an owned preview of a grid smaller than the caps, where the clamping acts
C13_Witness ==
    /\ op = "fmt"
    /\ text.t = "image"
    /\ text.label.mode = "preview"
    /\ ad.t = "ImageEventSerDe"
    /\ ad.array.h = 2 /\ ad.array.w = 2
    /\ Len(text.body) = 2
    /\ ~text.body[1].more

\* the degenerate grids and the grids beyond the caps are previewed too
C13_WitnessEdges ==
    /\ op = "fmt"
    /\ text.t = "image"
    /\ text.label.mode = "preview"
    /\ ad.t = "ImageEventSerDe"
    /\ ad.array.h = 4 /\ ad.array.w = 0
    /\ Len(text.body) = 4

=============================================================================
